---- MODULE Spec2Model ----
(***************************************************************************)
(* A model of the AAA layer (token service, role check, audit trail,       *)
(* credential store) of auth_service and of the request orchestration of   *)
(* gateway_service (health aggregation, proxied routes).                   *)
(*                                                                         *)
(* Four specifications share one state:                                   *)
(*   TokenSpec   - auth_service/auth.py, main.py, rbac.py (JWT tokens)     *)
(*   Spec        - auth_service/routes.py (users, audit log, mock tokens)  *)
(*   HealthSpec  - gateway_service/main.py health_check                    *)
(*   ProxySpec   - gateway_service/main.py proxied routes                  *)
(***************************************************************************)
EXTENDS Integers, Sequences, FiniteSets, TLC

VARIABLES
    now,                    \* the clock read by datetime.utcnow(), in minutes
    exp_inclusive,          \* the installed jwt library: is a token expired at exp = now
    tokens,                 \* issued JWTs, each with the arguments and time of its issue
    tresp,                  \* last answer of the token service / role check
    USERS_DB,               \* routes.py: user id -> user record
    MOCK_USER_ID_COUNTER,   \* routes.py: next user id
    AUDIT_LOGS_DB,          \* routes.py: the audit log, a list
    resp,                   \* last answer of an auth_service route
    hpc,                    \* health_check: registered names still to probe
    probes,                 \* health_check: what each probe met
    services_health,        \* health_check: the local dict being built
    hresp,                  \* health_check: the answer returned
    gw                      \* gateway proxy: the request in flight / answered

vars == <<now, exp_inclusive, tokens, tresp, USERS_DB, MOCK_USER_ID_COUNTER, AUDIT_LOGS_DB,
          resp, hpc, probes, services_health, hresp, gw>>

tokenVars == <<now, exp_inclusive, tokens, tresp>>
authVars == <<USERS_DB, MOCK_USER_ID_COUNTER, AUDIT_LOGS_DB, resp>>
healthVars == <<hpc, probes, services_health, hresp>>

----------------------------------------------------------------------------
(* Bounds *)

MaxTokens == 1
MaxIssueTime == 1
MaxUsers == 2
MaxAudit == 3
MaxStoreChanges == 2
MaxAccountAudit == 5

----------------------------------------------------------------------------
(* Token service: auth_service/auth.py and auth_service/main.py *)

SECRET_KEY == "supersecret"
TOKEN_MINUTES == 30

\* the mock user store of main.py
users ==
    [admin |-> [password |-> "hashed_admin_pw", role |-> "admin"],
     teacher |-> [password |-> "hashed_teacher_pw", role |-> "teacher"]]

\* the subjects, roles and passwords the operations are called with
Usernames == {"admin", "alice"}
TokenRoles == {"admin", "student"}
Passwords == {"hashed_admin_pw", "hashed_teacher_pw"}

MaxTime == MaxIssueTime + TOKEN_MINUTES + 2

NoPayload == [sub |-> "", role |-> "", exp |-> 0]

\* HS256 as an ideal MAC: the signature is determined by the key and by
\* every signed claim, and by nothing else.
HS256(payload, key) == <<key, payload.sub, payload.role, payload.exp>>

\* jwt.encode: a well-formed three-part string carrying payload and signature.
jwt_encode(payload, key) ==
    [wf |-> TRUE, payload |-> payload, sig |-> HS256(payload, key)]

\* a string that does not parse as a JWT
Malformed == [wf |-> FALSE, payload |-> NoPayload, sig |-> <<>>]

\* create_token with a lifetime of one hour
create_token_one_hour(username, role, t) ==
    jwt_encode([sub |-> username, role |-> role, exp |-> t + 60], SECRET_KEY)

create_token(username, role, t) ==
    jwt_encode([sub |-> username, role |-> role, exp |-> t + TOKEN_MINUTES],
               SECRET_KEY)

\* jwt.decode: parse, then verify the signature, then the exp claim. Whether a
\* token is expired at the very instant exp = now differs between releases
\* of the library (exp < now, exp <= now): atExp is the installed behaviour.
\* The clock counts whole minutes; the truncation of exp to whole seconds is
\* below that resolution.
jwt_decode(token, key, t, atExp) ==
    IF ~token.wf
    THEN [exc |-> "DecodeError", payload |-> NoPayload]
    ELSE IF token.sig # HS256(token.payload, key)
    THEN [exc |-> "InvalidSignatureError", payload |-> NoPayload]
    ELSE IF token.payload.exp < t \/ (atExp /\ token.payload.exp = t)
    THEN [exc |-> "ExpiredSignatureError", payload |-> NoPayload]
    ELSE [exc |-> "none", payload |-> token.payload]

\* decode_token with a key that is not the key create_token signs with
decode_token_other_key(token, t, atExp) ==
    jwt_decode(token, "secret", t, atExp)

\* auth.py; config.py is not among the sources, the key is taken to be the
\* one of main.py
decode_token(token, t, atExp) == jwt_decode(token, SECRET_KEY, t, atExp)

\* verify_token with its except clauses in the other order:
\* ExpiredSignatureError is an InvalidTokenError and is caught as one
verify_token_except_swapped(token, t, atExp) ==
    LET d == jwt_decode(token, SECRET_KEY, t, atExp) IN
    IF d.exc = "none"
    THEN [status |-> 200, detail |-> "", payload |-> d.payload]
    ELSE [status |-> 401, detail |-> "Invalid token", payload |-> NoPayload]

\* DecodeError and InvalidSignatureError are InvalidTokenError;
\* ExpiredSignatureError is caught first.
verify_token(token, t, atExp) ==
    LET d == jwt_decode(token, SECRET_KEY, t, atExp) IN
    IF d.exc = "none"
    THEN [status |-> 200, detail |-> "", payload |-> d.payload]
    ELSE IF d.exc = "ExpiredSignatureError"
    THEN [status |-> 401, detail |-> "Token expired", payload |-> NoPayload]
    ELSE [status |-> 401, detail |-> "Invalid token", payload |-> NoPayload]

role_required_live_check(required_role, token, t, atExp) ==
    LET d == decode_token(token, t, atExp) IN
    IF d.exc # "none"
    THEN [status |-> 500, detail |-> d.exc, payload |-> NoPayload]
    ELSE IF \/ d.payload.role # required_role
            \/ \E i \in DOMAIN USERS_DB : ~USERS_DB[i].is_active
    THEN [status |-> 403, detail |-> "Forbidden", payload |-> NoPayload]
    ELSE [status |-> 200, detail |-> "", payload |-> d.payload]

\* rbac.py: the exceptions of decode_token are not caught (the framework
\* answers 500); a role mismatch raises 403; nothing is written anywhere.
role_required(required_role, token, t, atExp) ==
    LET d == decode_token(token, t, atExp) IN
    IF d.exc # "none"
    THEN [status |-> 500, detail |-> d.exc, payload |-> NoPayload]
    ELSE IF d.payload.role # required_role
    THEN [status |-> 403, detail |-> "Forbidden", payload |-> NoPayload]
    ELSE [status |-> 200, detail |-> "", payload |-> d.payload]

TResp(op, token, t, required, r) ==
    [op |-> op, token |-> token, at |-> t, required |-> required,
     status |-> r.status, detail |-> r.detail, payload |-> r.payload]

NoTResp ==
    [op |-> "none", token |-> Malformed, at |-> 0, required |-> "",
     status |-> 0, detail |-> "", payload |-> NoPayload]

\* what the caller of create_token keeps: the token and what it asked for
IssueRecord(jwt, username, role, t) ==
    [jwt |-> jwt, username |-> username, role |-> role, at |-> t]

\* what a caller can make of a token it holds without the key
Altered(token) ==
    {[token EXCEPT !.payload.role = "admin"],
     [token EXCEPT !.payload.sub = "admin"],
     [token EXCEPT !.payload.exp = @ + 1],
     [token EXCEPT !.sig = <<"altered">> \o Tail(@)],
     jwt_encode(token.payload, "guessed"),
     Malformed} \ {token}

\* the strings a caller can present: the tokens it was issued, or altered ones
Issued == {i.jwt : i \in tokens}

Presentable == Issued \cup UNION {Altered(t) : t \in Issued}

\* The instants at which the clock is read. Every token is issued at a time
\* in 0..MaxIssueTime and carries an exp of at least TOKEN_MINUTES, so all the
\* instants strictly between MaxIssueTime and TOKEN_MINUTES - 1 give every
\* comparison with exp the value it has at TOKEN_MINUTES - 1.
Times == (0 .. MaxIssueTime) \cup ((TOKEN_MINUTES - 1) .. MaxTime)

\* time passes between two operations
Tick ==
    /\ \E t \in Times : t > now /\ now' = t
    /\ UNCHANGED <<exp_inclusive, tokens, tresp, authVars, healthVars, gw>>

\* auth.py create_token, called for any subject and role
CreateToken ==
    /\ Cardinality(tokens) < MaxTokens
    /\ now <= MaxIssueTime
    /\ \E u \in Usernames, r \in TokenRoles :
           LET tok == create_token(u, r, now) IN
           /\ tokens' = tokens \cup {IssueRecord(tok, u, r, now)}
           /\ tresp' = TResp("create_token", tok, now, "",
                             [status |-> 200, detail |-> "",
                              payload |-> NoPayload])
    /\ UNCHANGED <<now, exp_inclusive, authVars, healthVars, gw>>

\* main.py POST /token
TokenLogin ==
    /\ \E u \in Usernames, p \in Passwords :
        IF u \in DOMAIN users /\ users[u].password = p
        THEN /\ Cardinality(tokens) < MaxTokens
             /\ now <= MaxIssueTime
             /\ LET tok == create_token(u, users[u].role, now) IN
                /\ tokens' = tokens \cup {IssueRecord(tok, u, users[u].role, now)}
                /\ tresp' = TResp("login", tok, now, "",
                                  [status |-> 200, detail |-> "",
                                   payload |-> NoPayload])
        ELSE /\ tokens' = tokens
             /\ tresp' = TResp("login", Malformed, now, "",
                               [status |-> 401, detail |-> "Invalid credentials",
                                payload |-> NoPayload])
    /\ UNCHANGED <<now, exp_inclusive, authVars, healthVars, gw>>

\* main.py verify_token as the dependency of a request
VerifyToken ==
    /\ \E t \in Presentable :
           tresp' = TResp("verify_token", t, now, "",
                          verify_token(t, now, exp_inclusive))
    /\ UNCHANGED <<now, exp_inclusive, tokens, authVars, healthVars, gw>>

\* rbac.py role_required(required_role) as the dependency of a request
RoleRequired ==
    /\ \E t \in Presentable, required_role \in TokenRoles :
           tresp' = TResp("role_required", t, now, required_role,
                          role_required(required_role, t, now, exp_inclusive))
    /\ UNCHANGED <<now, exp_inclusive, tokens, authVars, healthVars, gw>>

TokenNext ==
    \/ Tick
    \/ CreateToken
    \/ TokenLogin
    \/ VerifyToken
    \/ RoleRequired

----------------------------------------------------------------------------
(* Credential store, audit trail and routes: auth_service/routes.py *)

\* Python's None where an integer or a string is expected
None == -1
NoneStr == "None"

UserRole == {"admin", "instructor", "student", "staff"}

\* the roles assign_role is called with
AssignedRoles == {"admin", "student"}

Emails == {"alice@example.com", "bob@example.com"}
FullNames == {"Alice"}
RoutePasswords == {"pw1", "pw2"}
UserIds == 1 .. MaxUsers

\* models.User: the response model leaves the password out
User(u) ==
    [id |-> u.id, email |-> u.email, full_name |-> u.full_name,
     role |-> u.role, is_active |-> u.is_active, created_at |-> u.created_at]

\* USERS_DB.values(), in insertion order; ids are inserted in increasing order
RECURSIVE UsersFrom(_, _)
UsersFrom(db, i) ==
    IF i >= MOCK_USER_ID_COUNTER THEN <<>>
    ELSE (IF i \in DOMAIN db THEN <<db[i]>> ELSE <<>>) \o UsersFrom(db, i + 1)

Values(db) == UsersFrom(db, 1)

\* next((u for u in USERS_DB.values() if u["email"] == email), None):
\* the set holding the first match, or the empty set
FirstByEmail(db, email) ==
    LET vs == Values(db)
        hits == {i \in 1 .. Len(vs) : vs[i].email = email}
    IN IF hits = {} THEN {}
       ELSE {vs[CHOOSE i \in hits : \A j \in hits : i <= j]}

\* log_audit that forgets whom the entry is about
log_audit_no_user(db, user_id, action, resource, status, details, t) ==
    Append(db, [id |-> Len(db) + 1, user_id |-> None, action |-> action,
                resource |-> resource, status |-> status,
                ip_address |-> "127.0.0.1", timestamp |-> t,
                details |-> details])

\* log_audit numbering from 0: the id of an entry is the length it found
log_audit_from_zero(db, user_id, action, resource, status, details, t) ==
    Append(db, [id |-> Len(db), user_id |-> user_id, action |-> action,
                resource |-> resource, status |-> status,
                ip_address |-> "127.0.0.1", timestamp |-> t,
                details |-> details])

\* log_audit: no await between reading the length and the append
log_audit(db, user_id, action, resource, status, details, t) ==
    Append(db, [id |-> Len(db) + 1, user_id |-> user_id, action |-> action,
                resource |-> resource, status |-> status,
                ip_address |-> "127.0.0.1", timestamp |-> t,
                details |-> details])

\* create_audit_log numbering its own entries apart from those of log_audit
create_audit_log_own_ids(db, action, resource, status, details, t) ==
    LET manual(l) == l.user_id = None /\ l.details = <<>> IN
    Append(db, [id |-> Len(SelectSeq(db, manual)) + 1, user_id |-> None,
                action |-> action, resource |-> resource, status |-> status,
                ip_address |-> "127.0.0.1", timestamp |-> t,
                details |-> details])

\* create_audit_log putting the newest entry first
create_audit_log_first(db, action, resource, status, details, t) ==
    <<[id |-> Len(db) + 1, user_id |-> None, action |-> action,
       resource |-> resource, status |-> status,
       ip_address |-> "127.0.0.1", timestamp |-> t,
       details |-> details]>> \o db

\* create_audit_log builds its own entry, always with user_id None
create_audit_log(db, action, resource, status, details, t) ==
    Append(db, [id |-> Len(db) + 1, user_id |-> None, action |-> action,
                resource |-> resource, status |-> status,
                ip_address |-> "127.0.0.1", timestamp |-> t,
                details |-> details])

get_permissions_for_role_default_student(role) ==
    IF role = "admin"
    THEN <<"read:users", "write:users", "delete:users", "read:audit_logs",
           "read:finances", "write:finances">>
    ELSE IF role = "instructor"
    THEN <<"read:students", "write:students", "read:curriculum",
           "write:curriculum", "read:grades">>
    ELSE IF role = "staff"
    THEN <<"read:all", "write:finance", "write:staff">>
    ELSE <<"read:profile", "write:profile", "read:grades", "read:curriculum">>

\* permissions_map.get(role, [])
get_permissions_for_role(role) ==
    IF role = "admin"
    THEN <<"read:users", "write:users", "delete:users", "read:audit_logs",
           "read:finances", "write:finances">>
    ELSE IF role = "instructor"
    THEN <<"read:students", "write:students", "read:curriculum",
           "write:curriculum", "read:grades">>
    ELSE IF role = "student"
    THEN <<"read:profile", "write:profile", "read:grades", "read:curriculum">>
    ELSE IF role = "staff"
    THEN <<"read:all", "write:finance", "write:staff">>
    ELSE <<>>

\* get_audit_logs: a filter is applied when its argument is truthy
\* (None and 0 are not, None and "" are not)
audit_query(db, user_id, action) ==
    LET byUser(l) == l.user_id = user_id
        byAction(l) == l.action = action
        l1 == IF user_id # None /\ user_id # 0 THEN SelectSeq(db, byUser) ELSE db
    IN IF action # NoneStr /\ action # "" THEN SelectSeq(l1, byAction) ELSE l1

\* response_model=List[AuditLog]: AuditLog.user_id is a required int, an
\* entry whose user_id is None fails the validation of the response
AuditLogsValid(logs) == \A i \in 1 .. Len(logs) : logs[i].user_id # None

\* the Authorization header of a request; no handler of routes.py reads it
NoBearer == <<>>
access_token(user_id, t) == <<"access_token", user_id, t>>
refresh_token_of(user_id, t) == <<"refresh_token", user_id, t>>
\* a caller sends no token, or the access token the last login returned
Bearers ==
    {NoBearer} \cup (IF resp.op = "login" /\ resp.status = 200
                      THEN {resp.body.access_token} ELSE {})

Resp(op, status, detail, body, bearer) ==
    [op |-> op, status |-> status, detail |-> detail, body |-> body,
     bearer |-> bearer]

\* the tokens a caller can present to routes.py: a token is the text
\* "access_token_<id>_<timestamp>", kept here as its three parts; a caller
\* can write any of them, and also a token cut after its prefix, a refresh
\* token, or any other text
MockTokens ==
    {access_token(i, t) : i \in 1 .. (MaxUsers + 1), t \in {0, 1}}
        \cup {refresh_token_of(i, 0) : i \in UserIds}
        \cup {<<"access_token">>, <<"garbage">>}

\* routes.py verify_token: token.startswith("access_token") is the only test;
\* the function returns None (no user: the empty set) for every text that
\* passes it
routes_verify_token(token) ==
    IF token[1] # "access_token"
    THEN [status |-> 401, detail |-> "Invalid token", user |-> {}]
    ELSE [status |-> 200, detail |-> "", user |-> {}]

NoResp == Resp("none", 0, "", <<>>, NoBearer)

\* Every handler of routes.py is a coroutine whose only awaits are of
\* log_audit, which itself awaits nothing: a handler runs from its first line
\* to its answer without leaving the event loop to another request. Requests
\* that arrive together are therefore run one whole handler after another, in
\* any order: each handler is one action.

\* Register without MOCK_USER_ID_COUNTER += 1
Register_no_increment ==
    /\ Len(AUDIT_LOGS_DB) < MaxAudit
    /\ \E email \in Emails, full_name \in FullNames, password \in RoutePasswords :
        IF \E i \in DOMAIN USERS_DB : USERS_DB[i].email = email
        THEN /\ AUDIT_LOGS_DB' =
                    log_audit(AUDIT_LOGS_DB, None, "register", "user", "failure",
                              <<"reason", "email_already_exists">>, now)
             /\ resp' = Resp("register", 400, "Email already registered", <<>>,
                             NoBearer)
             /\ UNCHANGED <<USERS_DB, MOCK_USER_ID_COUNTER>>
        ELSE /\ MOCK_USER_ID_COUNTER <= MaxUsers
             /\ LET user_id == MOCK_USER_ID_COUNTER
                    new_user == [id |-> user_id, email |-> email,
                                 full_name |-> full_name, password |-> password,
                                 role |-> "student", is_active |-> TRUE,
                                 created_at |-> now]
                IN /\ MOCK_USER_ID_COUNTER' = MOCK_USER_ID_COUNTER
                   /\ USERS_DB' = (user_id :> new_user) @@ USERS_DB
                   /\ AUDIT_LOGS_DB' =
                          log_audit(AUDIT_LOGS_DB, user_id, "register", "user",
                                    "success", <<>>, now)
                   /\ resp' = Resp("register", 201, "", User(new_user), NoBearer)
    /\ UNCHANGED <<tokenVars, healthVars, gw>>

\* register; USERS_DB[user_id] = new_user replaces whatever is stored at that
\* key
RegisterStep ==
    /\ \E email \in Emails, full_name \in FullNames, password \in RoutePasswords :
        IF \E i \in DOMAIN USERS_DB : USERS_DB[i].email = email
        THEN /\ AUDIT_LOGS_DB' =
                    log_audit(AUDIT_LOGS_DB, None, "register", "user", "failure",
                              <<"reason", "email_already_exists">>, now)
             /\ resp' = Resp("register", 400, "Email already registered", <<>>,
                             NoBearer)
             /\ UNCHANGED <<USERS_DB, MOCK_USER_ID_COUNTER>>
        ELSE /\ MOCK_USER_ID_COUNTER <= MaxUsers
             /\ LET user_id == MOCK_USER_ID_COUNTER
                    new_user == [id |-> user_id, email |-> email,
                                 full_name |-> full_name, password |-> password,
                                 role |-> "student", is_active |-> TRUE,
                                 created_at |-> now]
                IN /\ MOCK_USER_ID_COUNTER' = MOCK_USER_ID_COUNTER + 1
                   /\ USERS_DB' = (user_id :> new_user) @@ USERS_DB
                   /\ AUDIT_LOGS_DB' =
                          log_audit(AUDIT_LOGS_DB, user_id, "register", "user",
                                    "success", <<>>, now)
                   /\ resp' = Resp("register", 201, "", User(new_user), NoBearer)
    /\ UNCHANGED <<tokenVars, healthVars, gw>>

\* register, while the audit log has room for its entry
Register ==
    /\ Len(AUDIT_LOGS_DB) < MaxAudit
    /\ RegisterStep

\* login; the answer is kept with the credentials that were sent
LoginStep ==
    /\ \E email \in Emails, password \in RoutePasswords :
        LET found == FirstByEmail(USERS_DB, email)
            request == [email |-> email, password |-> password]
        IN
        IF found = {} \/ \E u \in found : u.password # password
        THEN /\ AUDIT_LOGS_DB' =
                    log_audit(AUDIT_LOGS_DB, None, "login", "user", "failure",
                              <<"email", email>>, now)
             /\ resp' = Resp("login", 401, "Invalid credentials",
                             [request |-> request], NoBearer)
        ELSE LET user == CHOOSE u \in found : TRUE IN
             IF ~user.is_active
             THEN /\ AUDIT_LOGS_DB' =
                         log_audit(AUDIT_LOGS_DB, user.id, "login", "user",
                                   "failure", <<"reason", "account_inactive">>,
                                   now)
                  /\ resp' = Resp("login", 403, "Account is inactive",
                                  [request |-> request], NoBearer)
             ELSE /\ AUDIT_LOGS_DB' =
                         log_audit(AUDIT_LOGS_DB, user.id, "login", "user",
                                   "success", <<>>, now)
                  /\ resp' = Resp("login", 200, "",
                                  [access_token |-> access_token(user.id, now),
                                   refresh_token |-> refresh_token_of(user.id, now),
                                   token_type |-> "bearer",
                                   user |-> User(user),
                                   request |-> request],
                                  NoBearer)
    /\ UNCHANGED <<USERS_DB, MOCK_USER_ID_COUNTER, tokenVars, healthVars, gw>>

\* login, while the audit log has room for its entry
Login ==
    /\ Len(AUDIT_LOGS_DB) < MaxAudit
    /\ LoginStep

\* refresh_token: the argument is not looked at
RefreshToken ==
    /\ \E rt \in {refresh_token_of(i, now) : i \in UserIds} \cup {<<"garbage">>} :
           resp' = Resp("refresh", 200, "",
                        [access_token |-> <<"access_token", now>>,
                         token_type |-> "bearer", presented |-> rt],
                        NoBearer)
    /\ UNCHANGED <<USERS_DB, MOCK_USER_ID_COUNTER, AUDIT_LOGS_DB, tokenVars,
                   healthVars, gw>>

GetUser ==
    /\ \E user_id \in UserIds :
        IF user_id \notin DOMAIN USERS_DB
        THEN resp' = Resp("get_user", 404, "User not found", <<>>, NoBearer)
        ELSE resp' = Resp("get_user", 200, "",
                          [user |-> User(USERS_DB[user_id]),
                           permissions |->
                               get_permissions_for_role(USERS_DB[user_id].role)],
                          NoBearer)
    /\ UNCHANGED <<USERS_DB, MOCK_USER_ID_COUNTER, AUDIT_LOGS_DB, tokenVars,
                   healthVars, gw>>

\* "List all users (admin only)": no dependency checks the caller
ListUsers ==
    /\ \E bearer \in Bearers :
        LET vs == Values(USERS_DB) IN
        resp' = Resp("list_users", 200, "",
                     [i \in 1 .. Len(vs) |-> User(vs[i])], bearer)
    /\ UNCHANGED <<USERS_DB, MOCK_USER_ID_COUNTER, AUDIT_LOGS_DB, tokenVars,
                   healthVars, gw>>

\* UserUpdate: each field is optional; a field is applied when truthy
UpdateUserStep ==
    /\ \E user_id \in UserIds, email \in Emails \cup {NoneStr},
          full_name \in FullNames \cup {NoneStr} :
        IF user_id \notin DOMAIN USERS_DB
        THEN /\ resp' = Resp("update_user", 404, "User not found", <<>>, NoBearer)
             /\ UNCHANGED <<USERS_DB, AUDIT_LOGS_DB>>
        ELSE /\ LET u0 == USERS_DB[user_id]
                    u1 == IF email # NoneStr THEN [u0 EXCEPT !.email = email]
                          ELSE u0
                    u2 == IF full_name # NoneStr
                          THEN [u1 EXCEPT !.full_name = full_name] ELSE u1
                IN /\ USERS_DB' = [USERS_DB EXCEPT ![user_id] = u2]
                   /\ AUDIT_LOGS_DB' =
                          log_audit(AUDIT_LOGS_DB, user_id, "user_update", "user",
                                    "success",
                                    <<"fields_updated", email, full_name>>, now)
                   /\ resp' = Resp("update_user", 200, "", User(u2), NoBearer)
    /\ UNCHANGED <<MOCK_USER_ID_COUNTER, tokenVars, healthVars, gw>>

\* update_user, while the audit log has room for its entry
UpdateUser ==
    /\ UpdateUserStep
    /\ Len(AUDIT_LOGS_DB') <= MaxAudit

\* DeleteUser with the record removed from the store (del USERS_DB[user_id])
DeleteUser_physical ==
    /\ \E user_id \in UserIds :
        IF user_id \notin DOMAIN USERS_DB
        THEN /\ resp' = Resp("delete_user", 404, "User not found", <<>>, NoBearer)
             /\ UNCHANGED <<USERS_DB, AUDIT_LOGS_DB>>
        ELSE /\ Len(AUDIT_LOGS_DB) < MaxAudit
             /\ USERS_DB' = [i \in DOMAIN USERS_DB \ {user_id} |-> USERS_DB[i]]
             /\ AUDIT_LOGS_DB' =
                    log_audit(AUDIT_LOGS_DB, user_id, "user_deactivate", "user",
                              "success", <<>>, now)
             /\ resp' = Resp("delete_user", 204, "", <<>>, NoBearer)
    /\ UNCHANGED <<MOCK_USER_ID_COUNTER, tokenVars, healthVars, gw>>

\* delete_user: user["is_active"] = False
DeleteUserStep ==
    /\ \E user_id \in UserIds :
        IF user_id \notin DOMAIN USERS_DB
        THEN /\ resp' = Resp("delete_user", 404, "User not found", <<>>, NoBearer)
             /\ UNCHANGED <<USERS_DB, AUDIT_LOGS_DB>>
        ELSE /\ USERS_DB' = [USERS_DB EXCEPT ![user_id].is_active = FALSE]
             /\ AUDIT_LOGS_DB' =
                    log_audit(AUDIT_LOGS_DB, user_id, "user_deactivate", "user",
                              "success", <<>>, now)
             /\ resp' = Resp("delete_user", 204, "", <<>>, NoBearer)
    /\ UNCHANGED <<MOCK_USER_ID_COUNTER, tokenVars, healthVars, gw>>

\* delete_user, while the audit log has room for its entry
DeleteUser ==
    /\ DeleteUserStep
    /\ Len(AUDIT_LOGS_DB') <= MaxAudit

\* AssignRole with an audit entry written for an unknown user id
AssignRole_audits_unknown ==
    /\ \E user_id \in UserIds, role \in AssignedRoles, bearer \in Bearers :
        /\ Len(AUDIT_LOGS_DB) < MaxAudit
        /\ IF user_id \notin DOMAIN USERS_DB
           THEN /\ resp' = Resp("assign_role", 404, "User not found", <<>>,
                                bearer)
                /\ AUDIT_LOGS_DB' =
                       log_audit(AUDIT_LOGS_DB, user_id, "role_change", "user",
                                 "failure", <<"reason", "user_not_found">>, now)
                /\ UNCHANGED USERS_DB
           ELSE LET old_role == USERS_DB[user_id].role IN
                /\ USERS_DB' = [USERS_DB EXCEPT ![user_id].role = role]
                /\ AUDIT_LOGS_DB' =
                       log_audit(AUDIT_LOGS_DB, user_id, "role_change", "user",
                                 "success",
                                 <<"old_role", old_role, "new_role", role>>, now)
                /\ resp' = Resp("assign_role", 200, "",
                                <<"User role changed", old_role, role>>, bearer)
    /\ UNCHANGED <<MOCK_USER_ID_COUNTER, tokenVars, healthVars, gw>>

\* "Assign role to user (admin only)": no dependency checks the caller
AssignRole ==
    /\ \E user_id \in UserIds, role \in AssignedRoles, bearer \in Bearers :
        IF user_id \notin DOMAIN USERS_DB
        THEN /\ resp' = Resp("assign_role", 404, "User not found", <<>>, bearer)
             /\ UNCHANGED <<USERS_DB, AUDIT_LOGS_DB>>
        ELSE /\ Len(AUDIT_LOGS_DB) < MaxAudit
             /\ LET old_role == USERS_DB[user_id].role IN
                /\ USERS_DB' = [USERS_DB EXCEPT ![user_id].role = role]
                /\ AUDIT_LOGS_DB' =
                       log_audit(AUDIT_LOGS_DB, user_id, "role_change", "user",
                                 "success",
                                 <<"old_role", old_role, "new_role", role>>, now)
                /\ resp' = Resp("assign_role", 200, "",
                                <<"User role changed", old_role, role>>, bearer)
    /\ UNCHANGED <<MOCK_USER_ID_COUNTER, tokenVars, healthVars, gw>>

\* "Retrieve audit logs (admin only)": no dependency checks the caller
GetAuditLogs ==
    /\ \E user_id \in {None, 0} \cup UserIds, action \in {NoneStr, "login"},
          bearer \in Bearers :
        LET logs == audit_query(AUDIT_LOGS_DB, user_id, action)
            query == [user_id |-> user_id, action |-> action]
        IN
        IF AuditLogsValid(logs)
        THEN resp' = Resp("get_audit_logs", 200, "",
                          [query |-> query, logs |-> logs], bearer)
        ELSE resp' = Resp("get_audit_logs", 500, "Internal Server Error",
                          [query |-> query, logs |-> <<>>], bearer)
    /\ UNCHANGED <<USERS_DB, MOCK_USER_ID_COUNTER, AUDIT_LOGS_DB, tokenVars,
                   healthVars, gw>>

GetUserActivity ==
    /\ \E user_id \in {0} \cup UserIds :
        LET mine(l) == l.user_id = user_id IN
        resp' = Resp("get_user_activity", 200, "",
                     [query |-> [user_id |-> user_id, action |-> NoneStr],
                      logs |-> SelectSeq(AUDIT_LOGS_DB, mine)],
                     NoBearer)
    /\ UNCHANGED <<USERS_DB, MOCK_USER_ID_COUNTER, AUDIT_LOGS_DB, tokenVars,
                   healthVars, gw>>

CreateAuditLog ==
    /\ Len(AUDIT_LOGS_DB) < MaxAudit
    /\ \E action \in {"login", "access_denied"}, status \in {"failure"} :
        /\ AUDIT_LOGS_DB' =
               create_audit_log(AUDIT_LOGS_DB, action, "user", status, <<>>, now)
        /\ resp' = Resp("create_audit_log", 200, "",
                        AUDIT_LOGS_DB'[Len(AUDIT_LOGS_DB')], NoBearer)
    /\ UNCHANGED <<USERS_DB, MOCK_USER_ID_COUNTER, tokenVars, healthVars, gw>>

\* the roles a caller can ask the permissions of: the four of UserRole, the
\* role "teacher" that main.py gives to alice, and texts that name no role
LookupRoles == UserRole \cup {"teacher", "guest", ""}

\* one call of get_permissions_for_role
GetPermissionsForRole ==
    /\ \E role \in LookupRoles :
        resp' = Resp("get_permissions_for_role", 200, "",
                     [role |-> role,
                      permissions |-> get_permissions_for_role(role)],
                     NoBearer)
    /\ UNCHANGED <<USERS_DB, MOCK_USER_ID_COUNTER, AUDIT_LOGS_DB, tokenVars,
                   healthVars, gw>>

\* verify_token of routes.py, as a request presenting a token would call it
\* (no route of the file depends on it)
RoutesVerifyToken ==
    /\ \E token \in MockTokens :
        LET r == routes_verify_token(token) IN
        resp' = Resp("verify_token", r.status, r.detail,
                     [presented |-> token, user |-> r.user], NoBearer)
    /\ UNCHANGED <<USERS_DB, MOCK_USER_ID_COUNTER, AUDIT_LOGS_DB, tokenVars,
                   healthVars, gw>>

Next ==
    \/ Register
    \/ Login
    \/ RefreshToken
    \/ GetUser
    \/ ListUsers
    \/ UpdateUser
    \/ DeleteUser
    \/ AssignRole
    \/ GetAuditLogs
    \/ GetUserActivity
    \/ CreateAuditLog

\* the sessions of routes.py: the handlers that issue the mock tokens, the
\* ones that change the role and the activity of a user, and the two helpers
\* that validate a token and look up the permissions of a role
SessionNext ==
    \/ Register
    \/ Login
    \/ RefreshToken
    \/ GetUser
    \/ DeleteUser
    \/ AssignRole
    \/ RoutesVerifyToken
    \/ GetPermissionsForRole

----------------------------------------------------------------------------
(* Gateway: gateway_service/main.py *)

\* SERVICE_URLS, in the order of the dict
SERVICE_URLS ==
    <<[name |-> "auth", url |-> "http://localhost:8001"],
      [name |-> "curriculum", url |-> "http://localhost:8002"],
      [name |-> "notification", url |-> "http://localhost:8003"],
      [name |-> "finance", url |-> "http://localhost:8004"],
      [name |-> "student", url |-> "http://localhost:8005"],
      [name |-> "staff", url |-> "http://localhost:8006"]>>

ServiceNames == {SERVICE_URLS[i].name : i \in 1 .. Len(SERVICE_URLS)}

\* the timeout, in seconds, of each health probe
HEALTH_TIMEOUT == 5

\* what an outbound call meets: no answer within the timeout, a network
\* error, or a response with a status and a body that is JSON or is not
TimedOut == [kind |-> "timeout", status |-> 0, json |-> FALSE]
ConnectError == [kind |-> "connect_error", status |-> 0, json |-> FALSE]
Response(status, json) == [kind |-> "response", status |-> status, json |-> json]

HealthOutcomes ==
    {TimedOut, ConnectError, Response(200, TRUE), Response(200, FALSE),
     Response(204, FALSE), Response(503, TRUE)}

\* health_entry without the test of the status: any response is parsed
health_entry_any_status(outcome) ==
    IF outcome.kind # "response" THEN <<"error", outcome.kind>>
    ELSE IF outcome.json THEN <<"json", "body">>
    ELSE <<"error", "JSONDecodeError">>

\* the value stored for one service by the body of the loop:
\* response.json() if the status is 200, "unhealthy" for any other status,
\* "error: <reason>" when the call or the parsing raised
health_entry(outcome) ==
    IF outcome.kind # "response" THEN <<"error", outcome.kind>>
    ELSE IF outcome.status = 200
    THEN (IF outcome.json THEN <<"json", "body">>
          ELSE <<"error", "JSONDecodeError">>)
    ELSE <<"unhealthy">>

\* probe_service with the dict created inside the loop
probe_service_fresh_dict(health, service_name, outcome) ==
    [n \in {service_name} |-> health_entry(outcome)]

\* one iteration of the loop: services_health[service_name] = ...
probe_service(health, service_name, outcome) ==
    [n \in DOMAIN health \cup {service_name} |->
        IF n = service_name THEN health_entry(outcome) ELSE health[n]]

NoHResp == [status |-> 0, gateway |-> "", services |-> <<>>]

\* a request for /health arrives: the dict is empty, the loop is at its start
HealthStart ==
    /\ hpc = <<>>
    /\ hpc' = [i \in 1 .. Len(SERVICE_URLS) |-> SERVICE_URLS[i].name]
    /\ services_health' = <<>>
    /\ probes' = <<>>
    /\ hresp' = NoHResp
    /\ UNCHANGED <<tokenVars, authVars, gw>>

\* HealthProbe with a failed probe tried again
HealthProbe_retry_failed ==
    /\ hpc # <<>>
    /\ hresp = NoHResp
    /\ \E outcome \in HealthOutcomes :
        /\ probes' = probes @@ (Head(hpc) :> outcome)
        /\ services_health' = probe_service(services_health, Head(hpc), outcome)
        /\ IF outcome.kind # "response"
           THEN hpc' = hpc /\ hresp' = hresp
           ELSE IF Len(hpc) > 1
           THEN hpc' = Tail(hpc) /\ hresp' = hresp
           ELSE /\ hpc' = <<>>
                /\ hresp' = [status |-> 200, gateway |-> "healthy",
                             services |-> services_health']
    /\ UNCHANGED <<tokenVars, authVars, gw>>

\* the probe of the next service ends, one way or another
HealthProbe ==
    /\ hpc # <<>>
    /\ hresp = NoHResp
    /\ \E outcome \in HealthOutcomes :
        /\ probes' = probes @@ (Head(hpc) :> outcome)
        /\ services_health' = probe_service(services_health, Head(hpc), outcome)
    /\ IF Len(hpc) > 1
       THEN hpc' = Tail(hpc) /\ hresp' = hresp
       ELSE /\ hpc' = <<>>
            /\ hresp' = [status |-> 200, gateway |-> "healthy",
                         services |-> services_health']
    /\ UNCHANGED <<tokenVars, authVars, gw>>

HealthNext ==
    \/ HealthStart
    \/ HealthProbe

\* the proxied routes: the handler, the method and path of the gateway, the
\* target service and path, the only backend status the handler lets
\* through (0: the status is not looked at) and the detail it raises with
Route(name, method, path, service, target, expect, detail) ==
    [name |-> name, method |-> method, path |-> path, service |-> service,
     target |-> target, expect |-> expect, detail |-> detail]

ROUTES ==
    {Route("register", "POST", "/api/auth/register", "auth",
           "/api/auth/register", 0, ""),
     Route("login", "POST", "/api/auth/login", "auth",
           "/api/auth/login", 200, "response.json()"),
     Route("get_users", "GET", "/api/auth/users", "auth",
           "/api/auth/users", 200, "Failed to fetch users"),
     Route("get_user", "GET", "/api/auth/users/{user_id}", "auth",
           "/api/auth/users/{user_id}", 200, "User not found"),
     Route("get_audit_logs", "GET", "/api/auth/audit-logs", "auth",
           "/api/auth/audit-logs", 0, ""),
     Route("list_students", "GET", "/api/students", "student",
           "/api/students", 0, ""),
     Route("create_student", "POST", "/api/students", "student",
           "/api/students", 201, "Failed to create student"),
     Route("get_student", "GET", "/api/students/{student_id}", "student",
           "/api/students/{student_id}", 200, "Student not found"),
     Route("get_student_profile", "GET", "/api/students/{student_id}/profile",
           "student", "/api/students/{student_id}/profile", 200,
           "Student not found"),
     Route("update_student", "PUT", "/api/students/{student_id}", "student",
           "/api/students/{student_id}", 200, "Failed to update student"),
     Route("list_courses", "GET", "/api/curriculum/courses", "curriculum",
           "/api/curriculum/courses", 0, ""),
     Route("create_course", "POST", "/api/curriculum/courses", "curriculum",
           "/api/curriculum/courses", 201, "Failed to create course"),
     Route("get_course", "GET", "/api/curriculum/courses/{course_id}",
           "curriculum", "/api/curriculum/courses/{course_id}", 200,
           "Course not found"),
     Route("list_curriculums", "GET", "/api/curriculums", "curriculum",
           "/api/curriculum/curriculums", 0, ""),
     Route("get_student_account", "GET", "/api/finance/accounts/{student_id}",
           "finance", "/api/finance/accounts/{student_id}", 200,
           "Account not found"),
     Route("list_invoices", "GET", "/api/finance/invoices", "finance",
           "/api/finance/invoices", 0, ""),
     Route("create_invoice", "POST", "/api/finance/invoices", "finance",
           "/api/finance/invoices", 201, "Failed to create invoice"),
     Route("get_financial_summary", "GET", "/api/finance/reports/summary",
           "finance", "/api/finance/reports/summary", 0, ""),
     Route("list_notifications", "GET", "/api/notifications", "notification",
           "/api/notifications", 0, ""),
     Route("send_notification", "POST", "/api/notifications", "notification",
           "/api/notifications", 201, "Failed to send notification"),
     Route("list_staff", "GET", "/api/staff", "staff", "/api/staff", 0, ""),
     Route("create_staff", "POST", "/api/staff", "staff", "/api/staff", 201,
           "Failed to create staff"),
     Route("get_staff", "GET", "/api/staff/{staff_id}", "staff",
           "/api/staff/{staff_id}", 200, "Staff not found")}

BackendStatuses == {200, 201, 400, 404, 500}

BackendOutcomes ==
    {TimedOut, ConnectError}
    \cup {Response(st, js) : st \in BackendStatuses, js \in BOOLEAN}

\* what the handler of a route answers once the backend call has ended. An
\* exception of the client or of response.json() is caught nowhere: the
\* framework answers 500. A returned value is sent with status 200.
proxy_response(route, outcome) ==
    IF outcome.kind # "response"
    THEN [status |-> 500, error |-> TRUE, detail |-> "Internal Server Error"]
    ELSE IF route.expect # 0 /\ outcome.status # route.expect
    THEN (IF route.detail = "response.json()" /\ ~outcome.json
          THEN [status |-> 500, error |-> TRUE,
                detail |-> "Internal Server Error"]
          ELSE [status |-> outcome.status, error |-> TRUE,
                detail |-> route.detail])
    ELSE IF ~outcome.json
    THEN [status |-> 500, error |-> TRUE, detail |-> "Internal Server Error"]
    ELSE [status |-> 200, error |-> FALSE, detail |-> ""]

\* SERVICE_URLS[service]
ServiceUrl(service) ==
    LET i == CHOOSE k \in 1 .. Len(SERVICE_URLS) : SERVICE_URLS[k].name = service
    IN SERVICE_URLS[i].url

\* the handlers that take an optional id to filter by: user_id of
\* get_audit_logs and of list_notifications, student_id of list_invoices
FilterRoutes == {"get_audit_logs", "list_invoices", "list_notifications"}

\* the values of that id in a request: not supplied (None), 0, 1
SuppliedIds == {None, 0, 1}

\* what a handler receives: the method and the path of the gateway route and
\* the id filter of the query
Request(route, id) == [method |-> route.method, path |-> route.path, id |-> id]

\* what the handler sends to the backend: client.<method> on
\* SERVICE_URLS[service] + target; "if user_id:" / "if student_id:" puts the
\* id in params only when it is truthy
forward_request(route, id) ==
    [method |-> route.method, url |-> ServiceUrl(route.service),
     path |-> route.target,
     id |-> IF id # None /\ id # 0 THEN id ELSE None]

NoRoute == Route("", "", "", "", "", 0, "")
NoAnswer == [status |-> 0, error |-> FALSE, detail |-> ""]
NoRequest == [method |-> "", path |-> "", id |-> None]
NoForward == [method |-> "", url |-> "", path |-> "", id |-> None]
Idle == [phase |-> "idle", route |-> NoRoute, request |-> NoRequest,
         forwarded |-> NoForward, backend |-> TimedOut, answer |-> NoAnswer]

\* a request arrives on a route: the handler sends the backend call and waits
ProxyCall ==
    /\ gw.phase # "sent"
    /\ \E route \in ROUTES :
       \E id \in IF route.name \in FilterRoutes THEN SuppliedIds ELSE {None} :
           gw' = [phase |-> "sent", route |-> route,
                  request |-> Request(route, id),
                  forwarded |-> forward_request(route, id),
                  backend |-> TimedOut, answer |-> NoAnswer]
    /\ UNCHANGED <<tokenVars, authVars, healthVars>>

\* the backend call ends and the handler answers
ProxyReturn ==
    /\ gw.phase = "sent"
    /\ \E outcome \in BackendOutcomes :
           gw' = [gw EXCEPT !.phase = "done", !.backend = outcome,
                            !.answer = proxy_response(gw.route, outcome)]
    /\ UNCHANGED <<tokenVars, authVars, healthVars>>

ProxyNext ==
    \/ ProxyCall
    \/ ProxyReturn

----------------------------------------------------------------------------
InitRest ==
    /\ now = 0
    /\ tokens = {}
    /\ tresp = NoTResp
    /\ USERS_DB = <<>>
    /\ MOCK_USER_ID_COUNTER = 1
    /\ AUDIT_LOGS_DB = <<>>
    /\ resp = NoResp
    /\ hpc = <<>>
    /\ probes = <<>>
    /\ services_health = <<>>
    /\ hresp = NoHResp
    /\ gw = Idle

\* routes.py never decodes a JWT
Init == exp_inclusive = TRUE /\ InitRest

\* the jwt library is whichever release is installed
TokenInit == exp_inclusive \in BOOLEAN /\ InitRest

TokenSpec == TokenInit /\ [][TokenNext]_vars

Spec == Init /\ [][Next]_vars

SessionSpec == Init /\ [][SessionNext]_vars

\* the token service next to the user store of routes.py: tokens are issued
\* and checked while users are registered, deactivated and given new roles.
\* The changes of the store are made at minute MaxIssueTime, at most
\* MaxStoreChanges of them; the tokens checked are the issued ones, each
\* against the role it was issued for.
StoreChange ==
    /\ now = MaxIssueTime
    /\ Len(AUDIT_LOGS_DB) < MaxStoreChanges
    /\ (Register \/ DeleteUser \/ AssignRole)

HolderRoleRequired ==
    /\ RoleRequired
    /\ tresp'.token \in Issued
    /\ tresp'.required = tresp'.token.payload.role

TokenStoreNext ==
    \/ Tick
    \/ CreateToken
    \/ HolderRoleRequired
    \/ StoreChange

TokenStoreSpec == TokenInit /\ [][TokenStoreNext]_vars

\* the life of an account in routes.py: registration, update, deactivation
\* and login, over a log long enough for a login that follows a
\* registration of two users, an update and a deactivation
AccountStep ==
    \/ RegisterStep
    \/ UpdateUserStep
    \/ DeleteUserStep
    \/ LoginStep

AccountNext ==
    /\ Len(AUDIT_LOGS_DB) < MaxAccountAudit
    /\ AccountStep

AccountSpec == Init /\ [][AccountNext]_vars

HealthSpec == Init /\ [][HealthNext]_vars

\* every probe ends: httpx.AsyncClient(timeout=5) bounds the wait of each
\* client.get, which returns or raises, and the loop goes on
HealthFairSpec == HealthSpec /\ WF_vars(HealthProbe)

ProxySpec == Init /\ [][ProxyNext]_vars

----------------------------------------------------------------------------
(* Claims about the token service *)

\* the issue record of the token last presented, if it is an issued one
IssueOf(jwt) == {i \in tokens : i.jwt = jwt}

\* C1: validating a token at the instant it was issued for (subject, role)
\* succeeds and returns exactly that subject and that role, through
\* verify_token and through decode_token as role_required calls it.
C1_RoundTrip ==
    \A i \in IssueOf(tresp.token) :
        /\ tresp.at = i.at
        /\ \/ tresp.op = "verify_token"
           \/ tresp.op = "role_required" /\ tresp.required = i.role
        => /\ tresp.status = 200
           /\ tresp.payload.sub = i.username
           /\ tresp.payload.role = i.role

C1_Witness ==
    \E i \in IssueOf(tresp.token) :
        /\ tresp.op = "verify_token" /\ tresp.at = i.at
        /\ i.username = "alice" /\ i.role = "student"
        /\ tresp.payload.sub = "alice" /\ tresp.payload.role = "student"

\* C2: every issued token carries exp = time of issue + 30 minutes; presented
\* up to 29 minutes after its issue it validates, presented 31 minutes or
\* more after its issue it fails with "Token expired".
C2_ThirtyMinutes ==
    /\ \A i \in tokens : i.jwt.payload.exp = i.at + 30
    /\ \A i \in IssueOf(tresp.token) :
           tresp.op = "verify_token"
           => /\ tresp.at <= i.at + 29 => tresp.status = 200
              /\ tresp.at >= i.at + 31
                 => tresp.status = 401 /\ tresp.detail = "Token expired"

C2_Witness ==
    \E i \in IssueOf(tresp.token) :
        /\ tresp.op = "verify_token"
        /\ tresp.at = i.at + 31
        /\ tresp.detail = "Token expired"

\* C3: a role check for "admin" made with a valid token bound to "student"
\* answers 403 and appends exactly one audit entry, with action
\* "access_denied" and status "failure".
C3_ForbiddenIsAudited ==
    [][(/\ tresp' # tresp
        /\ tresp'.op = "role_required"
        /\ tresp'.required = "admin"
        /\ tresp'.token \in Issued
        /\ tresp'.token.payload.role = "student"
        /\ now < tresp'.token.payload.exp)
       => /\ tresp'.status = 403
          /\ Len(AUDIT_LOGS_DB') = Len(AUDIT_LOGS_DB) + 1
          /\ AUDIT_LOGS_DB'[Len(AUDIT_LOGS_DB')].action = "access_denied"
          /\ AUDIT_LOGS_DB'[Len(AUDIT_LOGS_DB')].status = "failure"]_vars

\* C10: an issued token presented after its exp fails with "Token expired",
\* never with "Invalid token"; and once a token was answered "Token expired",
\* the next validation of it, however much later, does not succeed.
C10_ExpiredStaysExpired ==
    /\ [](\A i \in IssueOf(tresp.token) :
              tresp.op = "verify_token" /\ tresp.at > i.jwt.payload.exp
              => tresp.status = 401 /\ tresp.detail = "Token expired")
    /\ [][(/\ tresp.op = "verify_token"
           /\ tresp.detail = "Token expired"
           /\ tresp'.op = "verify_token"
           /\ tresp'.token = tresp.token)
          => tresp'.status # 200]_vars

C10_Witness ==
    /\ tresp.op = "verify_token"
    /\ tresp.token \in Issued
    /\ tresp.detail = "Token expired"
    /\ now > tresp.at

----------------------------------------------------------------------------
(* Claims about the routes of auth_service *)

\* the operations whose documentation says "(admin only)"
AdminOnlyOps == {"list_users", "assign_role", "get_audit_logs"}

\* C4: a registered user who has just logged in and received a token for
\* role "student" calls an admin-only operation with that token: the call is
\* answered 403, changes nothing in the credential store, and the audit log
\* then holds an entry {access_denied, user, failure}.
C4_StudentDeniedAdminOps ==
    [][(/\ resp.op = "login" /\ resp.status = 200
        /\ resp.body.user.role = "student"
        /\ resp'.op \in AdminOnlyOps
        /\ resp'.bearer = resp.body.access_token)
       => /\ resp'.status = 403
          /\ USERS_DB' = USERS_DB
          /\ \E i \in 1 .. Len(AUDIT_LOGS_DB') :
                 /\ AUDIT_LOGS_DB'[i].action = "access_denied"
                 /\ AUDIT_LOGS_DB'[i].resource = "user"
                 /\ AUDIT_LOGS_DB'[i].status = "failure"]_vars

\* C5: whatever the order in which appends through log_audit and through
\* create_audit_log are run, no two entries of the log have the same id and
\* the ids increase strictly along the log.
C5_AuditIdsIncrease ==
    \A i, j \in 1 .. Len(AUDIT_LOGS_DB) :
        i < j => AUDIT_LOGS_DB[i].id < AUDIT_LOGS_DB[j].id

\* an entry of create_audit_log followed by an entry of log_audit
C5_Witness ==
    \E i, j \in 1 .. Len(AUDIT_LOGS_DB) :
        /\ i < j
        /\ AUDIT_LOGS_DB[i].action = "access_denied"
        /\ AUDIT_LOGS_DB[j].user_id # None

\* C6: the audit log is append-only: every step keeps every entry of the log
\* at its position with every field unchanged.
C6_AppendOnly ==
    [][\A i \in 1 .. Len(AUDIT_LOGS_DB) :
           /\ i <= Len(AUDIT_LOGS_DB')
           /\ AUDIT_LOGS_DB'[i] = AUDIT_LOGS_DB[i]]_vars

\* a log of two entries or more after a deactivation and a manual entry
C6_Witness ==
    /\ Len(AUDIT_LOGS_DB) >= 2
    /\ resp.op = "create_audit_log"
    /\ \E i \in 1 .. Len(AUDIT_LOGS_DB) :
           AUDIT_LOGS_DB[i].action = "user_deactivate"

----------------------------------------------------------------------------
(* Claims about the gateway *)

Returned == hresp.status # 0

\* C7: a health aggregation answers 200 with gateway "healthy" and exactly
\* one entry per registered service, whatever the probes met; the entry of a
\* service whose probe got a 200 JSON answer is that answer, whatever the
\* other probes met.
C7_HealthBulkhead ==
    /\ hresp.status \in {0, 200}
    /\ Returned
       => /\ hresp.gateway = "healthy"
          /\ DOMAIN hresp.services = ServiceNames
          /\ Cardinality(DOMAIN hresp.services) = Len(SERVICE_URLS)
          /\ \A n \in ServiceNames :
                 probes[n] = Response(200, TRUE)
                 => hresp.services[n] = <<"json", "body">>

\* three registered services answer, the three others fail in three ways
C7_Witness ==
    /\ Returned
    /\ \E a, b, c \in ServiceNames :
           /\ probes[a] = TimedOut /\ probes[b] = ConnectError
           /\ probes[c] = Response(503, TRUE)
           /\ Cardinality({n \in ServiceNames :
                              hresp.services[n] = <<"json", "body">>}) = 3

IsErrorEntry(e) == Len(e) = 2 /\ e[1] = "error"
IsHealthyEntry(e) == Len(e) = 2 /\ e[1] = "json"

\* C8 as stated: a probe that times out, raises a network error or returns a
\* non-2xx status is recorded as "error: <reason>"; only a 2xx probe yields
\* a healthy-equivalent entry.
C8_NonSuccessIsErrorEntry ==
    Returned
    => \A n \in ServiceNames :
           /\ (\/ probes[n].kind # "response"
               \/ probes[n].status \notin 200 .. 299)
              => IsErrorEntry(hresp.services[n])
           /\ IsHealthyEntry(hresp.services[n])
              => probes[n].kind = "response" /\ probes[n].status \in 200 .. 299

\* C8 amended: a probe that times out or raises is recorded as
\* "error: <reason>", and so is a 200 answer whose body is not JSON; a
\* response with any status other than 200 is recorded as "unhealthy"; only
\* a probe answered 200 yields a healthy-equivalent entry.
C8_ErrorOrUnhealthy ==
    Returned
    => \A n \in ServiceNames :
           /\ probes[n].kind # "response" => IsErrorEntry(hresp.services[n])
           /\ probes[n].kind = "response" /\ probes[n].status # 200
              => hresp.services[n] = <<"unhealthy">>
           /\ probes[n] = Response(200, FALSE)
              => IsErrorEntry(hresp.services[n])
           /\ IsHealthyEntry(hresp.services[n])
              => probes[n].kind = "response" /\ probes[n].status = 200

C8_Witness ==
    /\ Returned
    /\ \E a, b, c \in ServiceNames :
           /\ probes[a] = TimedOut /\ IsErrorEntry(hresp.services[a])
           /\ probes[b] = Response(503, TRUE)
           /\ hresp.services[b] = <<"unhealthy">>
           /\ probes[c] = Response(204, FALSE)
           /\ hresp.services[c] = <<"unhealthy">>

\* C9: on every proxied route, a backend answer with a non-2xx status is
\* answered to the caller as an error with that same status, never as a
\* success. (Stated for the answers with a JSON body, which is what every
\* backend of the repository sends with an error status.)
C9_BackendErrorSurfaced ==
    /\ gw.phase = "done"
    /\ gw.backend.kind = "response"
    /\ gw.backend.json
    /\ gw.backend.status \notin 200 .. 299
    => /\ gw.answer.status = gw.backend.status
       /\ gw.answer.error

----------------------------------------------------------------------------
(* Claims about the validation of tokens *)

\* the mock access tokens of routes.py that a login has returned: each
\* successful login leaves its "login"/"success" entry in the audit log
IssuedByLogin(token) ==
    /\ Len(token) = 3
    /\ token[1] = "access_token"
    /\ \E k \in 1 .. Len(AUDIT_LOGS_DB) :
           /\ AUDIT_LOGS_DB[k].action = "login"
           /\ AUDIT_LOGS_DB[k].status = "success"
           /\ AUDIT_LOGS_DB[k].user_id = token[2]
           /\ AUDIT_LOGS_DB[k].timestamp = token[3]

\* C11: a token that was not issued (an issued one with its signature, its
\* subject, its role or its expiry altered, or a malformed one) fails
\* validation with the invalid-token error and yields no subject and no role;
\* stated for both validators, verify_token of main.py and verify_token of
\* routes.py.
C11_AlteredTokenRejected ==
    /\ tresp.op = "verify_token" /\ tresp.token \notin Issued
       => /\ tresp.status = 401
          /\ tresp.detail = "Invalid token"
          /\ tresp.payload = NoPayload
    /\ resp.op = "verify_token" /\ ~IssuedByLogin(resp.body.presented)
       => /\ resp.status = 401
          /\ resp.detail = "Invalid token"
          /\ resp.body.user = {}

\* C12: the access token of a successful login, validated right after the
\* login, yields the id of the logged-in user as subject and that user's role
\* at login time, and no other.
C12_LoginTokenValidates ==
    [][(/\ resp.op = "login" /\ resp.status = 200
        /\ resp'.op = "verify_token"
        /\ resp'.body.presented = resp.body.access_token)
       => /\ resp'.status = 200
          /\ resp'.body.user = {[sub |-> resp.body.user.id,
                                 role |-> resp.body.user.role]}]_vars

\* the refresh tokens that a login has returned
RefreshIssuedByLogin(token) ==
    /\ Len(token) = 3
    /\ token[1] = "refresh_token"
    /\ IssuedByLogin(access_token(token[2], token[3]))

\* C13: a refresh is granted only for a refresh token that a login issued,
\* and what it returns is a new access token, different from every access
\* token issued by a login before it.
C13_RefreshOnlyForValidToken ==
    resp.op = "refresh" /\ resp.status = 200
    => /\ RefreshIssuedByLogin(resp.body.presented)
       /\ ~IssuedByLogin(resp.body.access_token)

----------------------------------------------------------------------------
(* Claims about the queries of the audit log *)

\* the answer of one of the two queries of the audit log
IsAuditQuery == resp.op \in {"get_audit_logs", "get_user_activity"}

\* the entries of a sequence of audit entries are in insertion order
InInsertionOrder(logs) ==
    \A i, j \in 1 .. Len(logs) : i < j => logs[i].id < logs[j].id

\* C14: every entry of the audit log is returned by a query for its user_id
\* (for an entry whose user_id is null: by a query with no user_id filter),
\* and the entries of the answer are in insertion order.
C14_EntriesStayRetrievable ==
    \A k \in 1 .. Len(AUDIT_LOGS_DB) :
        /\ IsAuditQuery
        /\ resp.body.query.action = NoneStr
        /\ resp.body.query.user_id = AUDIT_LOGS_DB[k].user_id
        => /\ resp.status = 200
           /\ \E i \in 1 .. Len(resp.body.logs) :
                  resp.body.logs[i] = AUDIT_LOGS_DB[k]
           /\ InInsertionOrder(resp.body.logs)

\* C15: the answer of get_audit_logs is exactly the subsequence of the log
\* whose entries match every filter that was supplied, user_id and action,
\* in insertion order; a filter that was not supplied (None) constrains
\* nothing, a user_id of 0 is a supplied filter like any other. (Stated for
\* the queries that are answered.)
C15_QueryIsConjunctiveFilter ==
    resp.op = "get_audit_logs" /\ resp.status = 200
    => LET q == resp.body.query
           match(l) == /\ q.user_id # None => l.user_id = q.user_id
                       /\ q.action # NoneStr => l.action = q.action
       IN resp.body.logs = SelectSeq(AUDIT_LOGS_DB, match)

----------------------------------------------------------------------------
(* Claims about the permissions of a role *)

\* the pairs of a role and the permissions answered for it in an answer
PermissionsAnswered(r) ==
    IF r.op = "get_permissions_for_role"
    THEN {<<r.body.role, r.body.permissions>>}
    ELSE IF r.op = "get_user" /\ r.status = 200
    THEN {<<r.body.user.role, r.body.permissions>>}
    ELSE {}

\* C16: the permissions of each role of UserRole are a non-empty list, the
\* permissions of every other role are the empty list; two lookups of the
\* same role give the same list, and a lookup changes neither the users nor
\* the audit log.
C16_PermissionLookupTotal ==
    /\ [](\A p \in PermissionsAnswered(resp) :
              /\ p[1] \in UserRole => p[2] # <<>>
              /\ p[1] \notin UserRole => p[2] = <<>>)
    /\ [][/\ \A p \in PermissionsAnswered(resp), q \in PermissionsAnswered(resp') :
                 p[1] = q[1] => p[2] = q[2]
          /\ resp'.op = "get_permissions_for_role"
             => UNCHANGED <<USERS_DB, MOCK_USER_ID_COUNTER, AUDIT_LOGS_DB>>]_vars

C16_Witness ==
    /\ resp.op = "get_permissions_for_role"
    /\ resp.body.role = "teacher"
    /\ resp.body.permissions = <<>>
    /\ \E i \in DOMAIN USERS_DB : USERS_DB[i].role = "admin"

----------------------------------------------------------------------------
(* Claims about the audit of failures *)

\* C17: in every state in which role_required has answered 403, the audit
\* log holds an "access_denied" entry with status "failure": the entry is
\* written before the answer is returned.
C17_DenialAuditedBeforeAnswer ==
    tresp.op = "role_required" /\ tresp.status = 403
    => \E k \in 1 .. Len(AUDIT_LOGS_DB) :
           /\ AUDIT_LOGS_DB[k].action = "access_denied"
           /\ AUDIT_LOGS_DB[k].status = "failure"

\* C18: every request answered with an authentication failure (401: unknown
\* user or wrong password, invalid or expired token; 403 of login: inactive
\* account) or with an authorization failure (403 of role_required) appends
\* one entry with status "failure" to the audit log.
C18_FailuresAreAudited ==
    [][(\/ tresp' # tresp /\ tresp'.status \in {401, 403}
        \/ resp' # resp /\ resp'.op = "login" /\ resp'.status \in {401, 403})
       => /\ Len(AUDIT_LOGS_DB') = Len(AUDIT_LOGS_DB) + 1
          /\ AUDIT_LOGS_DB'[Len(AUDIT_LOGS_DB')].status = "failure"]_vars

----------------------------------------------------------------------------
(* Claims about tokens and the user store *)

----------------------------------------------------------------------------
(* Claims about what the gateway forwards *)

\* C20: the call a gateway route sends to its backend goes to the registered
\* address of the route's service, with the method of the request, the path
\* of the request and the id filter of the request, whatever its value.
C20_ForwardedUnchanged ==
    gw.phase # "idle"
    => /\ gw.forwarded.url = ServiceUrl(gw.route.service)
       /\ gw.forwarded.method = gw.request.method
       /\ gw.forwarded.path = gw.request.path
       /\ gw.forwarded.id = gw.request.id

\* C21: a proxied request whose backend call timed out or could not connect
\* is answered with an upstream error, 502 or 504, not with the 500 of an
\* unhandled exception.
C21_UnreachableIsUpstreamError ==
    gw.phase = "done" /\ gw.backend.kind # "response"
    => gw.answer.status \in {502, 504}

\* C22: in a health aggregation every probe is of the next service of
\* SERVICE_URLS, one not probed before in this aggregation, whatever the
\* outcome of the probe (a failed or timed-out probe is not tried again); and
\* an aggregation that has started returns.
C22_ProbedOnceAndReturns ==
    /\ [][hpc # <<>> /\ <<hpc, probes>>' # <<hpc, probes>>
          => /\ Head(hpc) \notin DOMAIN probes
             /\ DOMAIN probes' = DOMAIN probes \cup {Head(hpc)}
             /\ hpc' = Tail(hpc)]_vars
    /\ [](Returned => DOMAIN probes = ServiceNames /\ hpc = <<>>)
    /\ (hpc # <<>>) ~> Returned

\* the aggregation has returned although every probe timed out
C22_Witness ==
    /\ Returned
    /\ \A n \in ServiceNames : probes[n] = TimedOut
    /\ hpc = <<>>

----------------------------------------------------------------------------
(* Claims about the user store *)

\* the last entry of the audit log
LastAudit(db) == db[Len(db)]

\* a step that appended one entry with this action to the audit log
Appended(action) ==
    /\ Len(AUDIT_LOGS_DB') = Len(AUDIT_LOGS_DB) + 1
    /\ LastAudit(AUDIT_LOGS_DB').action = action

\* C23: every user id that was handed out is in the store, and stays in it
\* with its id through every step (register, update, deactivation, role
\* assignment); a deactivation changes nothing in the store but the
\* is_active flag of its user, which it sets to false.
C23_NeverDeleted ==
    /\ [](DOMAIN USERS_DB = 1 .. (MOCK_USER_ID_COUNTER - 1))
    /\ [][\A i \in DOMAIN USERS_DB :
              i \in DOMAIN USERS_DB' /\ USERS_DB'[i].id = i]_vars
    /\ [][Appended("user_deactivate")
          => USERS_DB' =
                 [USERS_DB EXCEPT
                      ![LastAudit(AUDIT_LOGS_DB').user_id].is_active = FALSE]]_vars

\* a deactivated user is still stored, after an update or a role change
C23_Witness ==
    /\ resp.op = "delete_user" /\ resp.status = 204
    /\ \E i \in DOMAIN USERS_DB : ~USERS_DB[i].is_active /\ USERS_DB[i].id = i
    /\ \E k \in 1 .. Len(AUDIT_LOGS_DB) :
           AUDIT_LOGS_DB[k].action \in {"user_update", "role_change"}

----------------------------------------------------------------------------
(* Claims about the errors of the role check *)

\* C24: a role check answers 200 or 403 only for a token that validates at
\* the time of the check; for a token that does not (altered, malformed or
\* expired) it answers 401.
C24_BadTokenIs401 ==
    tresp.op = "role_required"
    => LET validated ==
               jwt_decode(tresp.token, SECRET_KEY, tresp.at,
                          exp_inclusive).exc = "none"
       IN /\ validated => tresp.status \in {200, 403}
          /\ ~validated => tresp.status = 401

\* C25: in whatever order register requests and the other requests are run,
\* the stored users have pairwise distinct ids; a successful registration
\* takes an id greater than every id stored before, leaves every stored
\* record as it was, and moves the counter past the id it took.
C25_DistinctIncreasingIds ==
    /\ [](\A i, j \in DOMAIN USERS_DB :
              /\ USERS_DB[i].id = i
              /\ i # j => USERS_DB[i].id # USERS_DB[j].id)
    /\ [][Appended("register") /\ LastAudit(AUDIT_LOGS_DB').status = "success"
          => LET n == LastAudit(AUDIT_LOGS_DB').user_id IN
             /\ \A i \in DOMAIN USERS_DB : i < n /\ USERS_DB'[i] = USERS_DB[i]
             /\ DOMAIN USERS_DB' = DOMAIN USERS_DB \cup {n}
             /\ USERS_DB'[n].id = n
             /\ MOCK_USER_ID_COUNTER' = n + 1]_vars

\* a second registration has just been stored beside the first
C25_Witness ==
    /\ resp.op = "register" /\ resp.status = 201 /\ resp.body.id = 2
    /\ DOMAIN USERS_DB = {1, 2}
    /\ USERS_DB[1].email # USERS_DB[2].email

----------------------------------------------------------------------------
(* Claims about what the handlers of routes.py write and leave alone *)

\* the audit action of each operation that succeeds with its status
AuditActionOf ==
    [register |-> "register", login |-> "login", update_user |-> "user_update",
     delete_user |-> "user_deactivate", assign_role |-> "role_change"]

SuccessStatusOf ==
    [register |-> 201, login |-> 200, update_user |-> 200, delete_user |-> 204,
     assign_role |-> 200]

\* C26: a step in which register, login, update_user, delete_user or
\* assign_role succeeds appends exactly one entry to the audit log, with
\* status "success", the action of the operation and the id of the user it
\* acted on; the entry of a role change holds the role before and the role
\* after.
C26_SuccessAudited ==
    [][(/\ resp'.op \in DOMAIN AuditActionOf
        /\ resp'.status = SuccessStatusOf[resp'.op])
       => LET e == LastAudit(AUDIT_LOGS_DB')
              op == resp'.op
          IN /\ Len(AUDIT_LOGS_DB') = Len(AUDIT_LOGS_DB) + 1
             /\ e.status = "success"
             /\ e.action = AuditActionOf[op]
             /\ e.user_id \in DOMAIN USERS_DB'
             /\ op = "register"
                => e.user_id = resp'.body.id /\ e.user_id \notin DOMAIN USERS_DB
             /\ op = "login" => e.user_id = resp'.body.user.id
             /\ op = "update_user" => e.user_id = resp'.body.id
             /\ op = "delete_user" => ~USERS_DB'[e.user_id].is_active
             /\ op = "assign_role"
                => /\ e.details = <<"old_role", USERS_DB[e.user_id].role,
                                    "new_role", USERS_DB'[e.user_id].role>>
                   /\ resp'.body = <<"User role changed",
                                     USERS_DB[e.user_id].role,
                                     USERS_DB'[e.user_id].role>>]_vars

\* a student has just been made admin and the entry says so
C26_Witness ==
    /\ resp.op = "assign_role" /\ resp.status = 200
    /\ LET e == LastAudit(AUDIT_LOGS_DB) IN
       /\ e.action = "role_change" /\ e.status = "success"
       /\ e.details = <<"old_role", "student", "new_role", "admin">>
       /\ USERS_DB[e.user_id].role = "admin"

\* C27: no two stored users have the same email address.
C27_EmailsUnique ==
    \A i, j \in DOMAIN USERS_DB :
        i # j => USERS_DB[i].email # USERS_DB[j].email

\* C28: the entry at position i of the audit log has id i, for the entries of
\* log_audit and of create_audit_log alike: the ids are 1, 2, ... with no
\* gap, each the length of the log once its entry was appended.
C28_IdIsPosition ==
    \A i \in 1 .. Len(AUDIT_LOGS_DB) : AUDIT_LOGS_DB[i].id = i

\* a full log whose second entry was made by create_audit_log, between two
\* entries of log_audit
C28_Witness ==
    /\ Len(AUDIT_LOGS_DB) = MaxAudit
    /\ AUDIT_LOGS_DB[1].action = "register"
    /\ AUDIT_LOGS_DB[2].action = "access_denied" /\ AUDIT_LOGS_DB[2].id = 2
    /\ AUDIT_LOGS_DB[MaxAudit].action = "login"
    /\ AUDIT_LOGS_DB[MaxAudit].id = MaxAudit

\* C29: a deactivated user stays deactivated through every step; a login
\* that returns a token is the login of an active user; a login with the
\* email of a deactivated user is answered 403 "Account is inactive" and
\* audited as a failure with the id of that user when the password is the
\* one of that user, and 401 when it is not.
C29_DeactivatedLoginRefused ==
    /\ [][\A i \in DOMAIN USERS_DB :
              ~USERS_DB[i].is_active => ~USERS_DB'[i].is_active]_vars
    /\ [](resp.op = "login" /\ resp.status = 200
          => USERS_DB[resp.body.user.id].is_active)
    /\ [](\A i \in DOMAIN USERS_DB :
              /\ resp.op = "login"
              /\ ~USERS_DB[i].is_active
              /\ USERS_DB[i].email = resp.body.request.email
              => IF USERS_DB[i].password = resp.body.request.password
                 THEN /\ resp.status = 403
                      /\ resp.detail = "Account is inactive"
                      /\ LastAudit(AUDIT_LOGS_DB).action = "login"
                      /\ LastAudit(AUDIT_LOGS_DB).status = "failure"
                      /\ LastAudit(AUDIT_LOGS_DB).user_id = i
                 ELSE resp.status = 401)

\* the handlers that look a user up by the id in the path
ByIdOps == {"get_user", "update_user", "delete_user", "assign_role"}

\* the id of the user a handler of ByIdOps has answered for, after a step
\* that was not answered 404
AnsweredFor ==
    CASE resp'.op = "get_user" -> resp'.body.user.id
      [] resp'.op = "update_user" -> resp'.body.id
      [] OTHER -> LastAudit(AUDIT_LOGS_DB').user_id

\* C30: a step answered with a failure status leaves the store of users and
\* the id counter as they were. A lookup, update, deactivation or role
\* assignment is answered 404 "User not found" when no user is stored, is
\* answered for a stored user when the answer is not 404, and a 404 leaves
\* the audit log as it was. A registration is answered 400 exactly when the
\* email is the email of a stored user, and a 400 adds one "register"
\* failure entry to the audit log and nothing else.
C30_FailureChangesNothing ==
    [][/\ resp'.status >= 400
          => USERS_DB' = USERS_DB
             /\ MOCK_USER_ID_COUNTER' = MOCK_USER_ID_COUNTER
       /\ resp'.op \in ByIdOps
          => /\ DOMAIN USERS_DB = {} => resp'.status = 404
             /\ resp'.status = 404
                => /\ resp'.detail = "User not found"
                   /\ DOMAIN USERS_DB # UserIds
                   /\ AUDIT_LOGS_DB' = AUDIT_LOGS_DB
             /\ resp'.status # 404 => AnsweredFor \in DOMAIN USERS_DB
       /\ resp'.op = "register"
          => /\ resp'.status \in {201, 400}
             /\ resp'.status = 201
                => \A i \in DOMAIN USERS_DB :
                       USERS_DB[i].email # resp'.body.email
             /\ resp'.status = 400
                => /\ resp'.detail = "Email already registered"
                   /\ Appended("register")
                   /\ LastAudit(AUDIT_LOGS_DB').status = "failure"
                   /\ SubSeq(AUDIT_LOGS_DB', 1, Len(AUDIT_LOGS_DB))
                          = AUDIT_LOGS_DB
             /\ (\A e \in Emails :
                     \E i \in DOMAIN USERS_DB : USERS_DB[i].email = e)
                => resp'.status = 400]_vars

\* a registration with the email of user 1 has been refused: one user, the
\* next id still 2, and the log holds the registration and the refusal only
C30_Witness ==
    /\ resp.op = "register" /\ resp.status = 400
    /\ DOMAIN USERS_DB = {1}
    /\ MOCK_USER_ID_COUNTER = 2
    /\ Len(AUDIT_LOGS_DB) = 2
    /\ AUDIT_LOGS_DB[1].status = "success"
    /\ AUDIT_LOGS_DB[2].action = "register"
    /\ AUDIT_LOGS_DB[2].status = "failure"

====
